---- MODULE Spec2Model ----
(***************************************************************************)
(* The TopChef job broker: the request handlers of topchef/api_server.py   *)
(* over a record store of Services and Jobs.                               *)
(*                                                                         *)
(* Every handler opens its own session (SESSION_FACTORY()), reads through  *)
(* it, changes the loaded objects and writes them back at session.commit().*)
(* A handler that reads and later commits is modelled as two steps, begin  *)
(* and commit, so that requests served by different threads interleave at  *)
(* their store accesses.  The requests in flight form a bag.               *)
(*                                                                         *)
(* topchef/models.py (Service, Job, their schemas) and the poll operation  *)
(* are not part of the source at hand; they are modelled from the          *)
(* specification's sections 3 and 4.                                       *)
(***************************************************************************)
EXTENDS Integers, FiniteSets, Bags, TLC

VARIABLES
    services,   \* the Service table: id -> record, or NoService
    jobs,       \* the Job table: id -> record, or NoJob
    now,        \* the broker's clock (datetime.utcnow())
    nextJob,    \* identifiers handed out by the Job constructor so far, plus 1
    inflight,   \* bag of requests that have read and not yet committed
    handed      \* job id -> number of poll calls the job was returned to

vars == <<services, jobs, now, nextJob, inflight, handed>>

---------------------------------------------------------------------------
(* Bounds of the model *)

MaxServices == 2
MaxJobs == 2
MaxTime == 1
MaxInFlight == 2

(* The scenarios checked exhaustively: every Job on one Service, and one  *)
(* Job among all the Services.                                            *)
ScenarioServices == 1
ScenarioJobs == 1

(* Hosting parameter: the number of threads serving requests. *)
THREADS == 3

InFlightLimit == IF MaxInFlight < THREADS THEN MaxInFlight ELSE THREADS

ServiceIds == 1..MaxServices
JobIds == 1..MaxJobs

---------------------------------------------------------------------------
(* JSON values and schema documents.  A schema document is modelled by the *)
(* <<minimum, maximum>> it sets on an integer value.                       *)

Values == 1..2
SchemaA == <<1, 1>>
SchemaB == <<2, 2>>
NoSchema == <<>>          \* job_result_schema absent
MalformedSchema == <<0>>  \* not a JSON-schema document
NoResult == 0             \* no result stored / none supplied
NoDate == -1              \* date_finished not set
MalformedBody == -1       \* a request body the deserializer rejects

(* The bodies POSTed to /services. *)
RegistrationBodies ==
    { [name |-> "TestService", description |-> "Some test data",
       job_registration_schema |-> SchemaA, job_result_schema |-> SchemaA],
      [name |-> "OtherService", description |-> "",
       job_registration_schema |-> SchemaB, job_result_schema |-> NoSchema],
      [name |-> "TestService", description |-> "Some test data",
       job_registration_schema |-> MalformedSchema,
       job_result_schema |-> NoSchema] }

(* The bodies PUT to /services/<service_id>/jobs/<job_id>. *)
UpdateBodies ==
    { [status |-> "REGISTERED", result |-> NoResult],
      [status |-> "WORKING", result |-> NoResult],
      [status |-> "COMPLETE", result |-> 1],
      [status |-> "COMPLETE", result |-> 2],
      [status |-> "ERROR", result |-> NoResult],
      [status |-> "ERROR", result |-> 2] }

NoService == [absent |-> TRUE]
NoJob == [absent |-> TRUE]

REGISTERED == "REGISTERED"
WORKING == "WORKING"
COMPLETE == "COMPLETE"
ERROR == "ERROR"
Statuses == {REGISTERED, WORKING, COMPLETE, ERROR}
Terminal == {COMPLETE, ERROR}

(* SchemaValidator: validate value v against schema document s. *)
Validates(v, s) == s[1] <= v /\ v <= s[2]

(* Default heartbeat timeout of a Service, in clock ticks: the clock is   *)
(* read in steps longer than the timeout.                                 *)
HeartbeatTimeout == 0

(* Service.has_timed_out *)
has_timed_out(s) == now - services[s].last_heartbeat > HeartbeatTimeout

---------------------------------------------------------------------------
(* Store queries *)

Registered(s) == s \in ServiceIds /\ services[s] # NoService
Stored(j) == j \in JobIds /\ jobs[j] # NoJob

(* Mutant of QueryService: the filter on the identifier is left out. *)
QueryServiceFirst(sid) ==
    IF \E s \in ServiceIds : Registered(s)
    THEN CHOOSE s \in ServiceIds :
             Registered(s) /\ \A t \in ServiceIds : Registered(t) => s <= t
    ELSE 0

(* session.query(Service).filter_by(id=service_id).first(); 0 is None *)
QueryService(sid) == IF Registered(sid) THEN sid ELSE 0

(* session.query(Job).filter_by(id=job_id).first(); 0 is None *)
QueryJob(jid) == IF Stored(jid) THEN jid ELSE 0

(* Identifier of a newly registered Service. *)
NewServiceId == Cardinality({s \in ServiceIds : Registered(s)}) + 1

Pending(op, sid, jid, status, value, ts) ==
    [op |-> op, sid |-> sid, jid |-> jid, status |-> status,
     value |-> value, ts |-> ts]

InFlight == BagCardinality(inflight)
Begin(p) == inflight' = inflight (+) SetToBag({p})
Finish(p) == inflight' = inflight (-) SetToBag({p})

---------------------------------------------------------------------------
Init ==
    /\ services = [s \in ServiceIds |-> NoService]
    /\ jobs = [j \in JobIds |-> NoJob]
    /\ now = 0
    /\ nextJob = 1
    /\ inflight = EmptyBag
    /\ handed = [j \in JobIds |-> 0]

(* The clock advances. *)
Tick ==
    /\ now < MaxTime
    /\ now' = now + 1
    /\ UNCHANGED <<services, jobs, nextJob, inflight, handed>>

(* Service.DetailedServiceSchema().load(request.json): the errors. *)
ServiceSchema_load_errors(body) ==
    body.job_registration_schema = MalformedSchema

(* POST /services: the response. *)
register_service_response(body) ==
    IF ServiceSchema_load_errors(body) THEN "400" ELSE "201"

(* POST /services *)
register_service(body) ==
    /\ NewServiceId \in ServiceIds
    /\ IF register_service_response(body) = "201"
       THEN services' = [services EXCEPT ![NewServiceId] =
                [name |-> body.name, description |-> body.description,
                 job_registration_schema |-> body.job_registration_schema,
                 job_result_schema |-> body.job_result_schema,
                 last_heartbeat |-> now]]
       ELSE UNCHANGED services
    /\ UNCHANGED <<jobs, now, nextJob, inflight, handed>>

(* GET /services/<service_id>: the response, or the error raised.  The    *)
(* handler sets service.file_manager on what the query returned before it *)
(* tests it for None.                                                     *)
get_service_data_response(sid) ==
    IF QueryService(sid) = 0 THEN "AttributeError" ELSE "200"

(* Mutant of get_service_data_body: the dump leaves job_result_schema out. *)
get_service_data_body_brief(sid) ==
    [job_registration_schema |-> services[sid].job_registration_schema,
     job_result_schema |-> NoSchema]

(* GET /services/<service_id>: the body of a 200 response, the dump of    *)
(* the Service by DetailedServiceSchema.                                  *)
get_service_data_body(sid) ==
    [job_registration_schema |-> services[sid].job_registration_schema,
     job_result_schema |-> services[sid].job_result_schema]

(* GET /services/<service_id>: reads, and writes nothing. *)
get_service_data(sid) ==
    /\ get_service_data_response(sid) \in {"200", "AttributeError"}
    /\ UNCHANGED vars

(* Service.heartbeat(): the timestamp the Service is given. *)
Service_heartbeat == now

(* PATCH /services/<service_id>: the response. *)
heartbeat_response(sid) ==
    IF QueryService(sid) = 0 THEN "404" ELSE "200"

(* PATCH /services/<service_id>: look the Service up and mark it. *)
heartbeat_begin(sid) ==
    /\ InFlight < InFlightLimit
    /\ IF heartbeat_response(sid) = "200"
       THEN Begin(Pending("heartbeat", sid, 0, "", 0, Service_heartbeat))
       ELSE UNCHANGED inflight
    /\ UNCHANGED <<services, jobs, now, nextJob, handed>>

(* Mutant of heartbeat_commit: the timestamp is written to every Service. *)
heartbeat_commit_all(p) ==
    /\ BagIn(p, inflight) /\ p.op = "heartbeat"
    /\ Finish(p)
    /\ services' = [s \in ServiceIds |->
           IF Registered(s)
           THEN [services[s] EXCEPT !.last_heartbeat = p.ts]
           ELSE services[s]]
    /\ UNCHANGED <<jobs, now, nextJob, handed>>

(* PATCH /services/<service_id>: session.add(service); session.commit(). *)
heartbeat_commit(p) ==
    /\ BagIn(p, inflight) /\ p.op = "heartbeat"
    /\ Finish(p)
    /\ services' = [services EXCEPT ![p.sid].last_heartbeat = p.ts]
    /\ UNCHANGED <<jobs, now, nextJob, handed>>

(* Job.JobSchema().load(request.json): the errors of the body. *)
JobSchema_load_errors(payload) == payload = MalformedBody

(* Job(service, parameters): the constructor accepts the parameters when  *)
(* they validate against the Service's job_registration_schema.           *)
Job_init_accepts(sid, parameters) ==
    Validates(parameters, services[sid].job_registration_schema)

(* POST /services/<service_id>/jobs: the response, or the error raised. *)
request_job_response(sid, payload) ==
    IF QueryService(sid) = 0 THEN "404"
    ELSE IF JobSchema_load_errors(payload) THEN "400"
    ELSE IF ~Job_init_accepts(QueryService(sid), payload)
    THEN "ValidationError"
    ELSE "201"

(* POST /services/<service_id>/jobs: up to the construction of the Job. *)
request_job_begin(sid, payload) ==
    /\ InFlight < InFlightLimit
    /\ nextJob \in JobIds
    /\ IF request_job_response(sid, payload) = "201"
       THEN /\ Begin(Pending("request_job", QueryService(sid), nextJob,
                             REGISTERED, payload, now))
            /\ nextJob' = nextJob + 1
       ELSE UNCHANGED <<inflight, nextJob>>
    /\ UNCHANGED <<services, jobs, now, handed>>

(* POST /services/<service_id>/jobs: session.add(job); session.commit(). *)
request_job_commit(p) ==
    /\ BagIn(p, inflight) /\ p.op = "request_job"
    /\ Finish(p)
    /\ jobs' = [jobs EXCEPT ![p.jid] =
           [service |-> p.sid, status |-> p.status, parameters |-> p.value,
            result |-> NoResult, date_submitted |-> p.ts,
            date_finished |-> NoDate]]
    /\ UNCHANGED <<services, now, nextJob, handed>>

(* The state machine of a Job: the states a status exits to. *)
LegalSuccessor(old, new) ==
    \/ old = REGISTERED /\ new = WORKING
    \/ old = WORKING /\ new \in Terminal

(* Mutant of Job_update: the result of an ERROR update is validated too. *)
Job_update_strict(jid, new_status, result) ==
    LET owner == services[jobs[jid].service] IN
    IF ~LegalSuccessor(jobs[jid].status, new_status)
    THEN "InvalidTransitionError"
    ELSE IF /\ new_status \in Terminal
            /\ owner.job_result_schema # NoSchema
            /\ ~Validates(result, owner.job_result_schema)
    THEN "ValidationError"
    ELSE "ok"

(* Job.update(new_job_data) on a loaded Job: what it raises, or "ok". *)
Job_update(jid, new_status, result) ==
    LET owner == services[jobs[jid].service] IN
    IF ~LegalSuccessor(jobs[jid].status, new_status)
    THEN "InvalidTransitionError"
    ELSE IF /\ new_status = COMPLETE
            /\ owner.job_result_schema # NoSchema
            /\ ~Validates(result, owner.job_result_schema)
    THEN "ValidationError"
    ELSE "ok"

(* Mutant of update_job_results_response: what job.update() raises is    *)
(* caught and the handler goes on to commit.                              *)
update_job_results_response_swallow(sid, jid, new_status, result) ==
    IF QueryService(sid) = 0 THEN "404"
    ELSE IF QueryJob(jid) = 0 THEN "404"
    ELSE "NoResponse"

(* Mutant of update_job_results_response: a Service that has timed out is *)
(* treated as absent.                                                     *)
update_job_results_response_alive(sid, jid, new_status, result) ==
    IF QueryService(sid) = 0 THEN "404"
    ELSE IF has_timed_out(QueryService(sid)) THEN "404"
    ELSE IF QueryJob(jid) = 0 THEN "404"
    ELSE IF Job_update(QueryJob(jid), new_status, result) # "ok"
    THEN Job_update(QueryJob(jid), new_status, result)
    ELSE "NoResponse"

(* PUT /services/<service_id>/jobs/<job_id>: the response, or the error   *)
(* raised.  After the commit the handler ends without a return statement. *)
update_job_results_response(sid, jid, new_status, result) ==
    IF QueryService(sid) = 0 THEN "404"
    ELSE IF QueryJob(jid) = 0 THEN "404"
    ELSE IF Job_update(QueryJob(jid), new_status, result) # "ok"
    THEN Job_update(QueryJob(jid), new_status, result)
    ELSE "NoResponse"

(* PUT /services/<service_id>/jobs/<job_id>: the lookups and job.update(). *)
update_job_results_begin(sid, jid, new_status, result) ==
    /\ InFlight < InFlightLimit
    /\ IF update_job_results_response(sid, jid, new_status, result)
             = "NoResponse"
       THEN Begin(Pending("update_job_results", sid, QueryJob(jid), new_status,
                          result,
                          IF new_status \in Terminal THEN now ELSE NoDate))
       ELSE UNCHANGED inflight
    /\ UNCHANGED <<services, jobs, now, nextJob, handed>>

(* PUT /services/<service_id>/jobs/<job_id>: session.add(job);            *)
(* session.commit() writes the attributes job.update() changed.           *)
update_job_results_commit(p) ==
    /\ BagIn(p, inflight) /\ p.op = "update_job_results"
    /\ Finish(p)
    /\ jobs' = [jobs EXCEPT ![p.jid] =
           [@ EXCEPT !.status = p.status,
                     !.result = IF p.value # NoResult THEN p.value ELSE @,
                     !.date_finished =
                         IF p.status \in Terminal THEN p.ts ELSE @]]
    /\ UNCHANGED <<services, now, nextJob, handed>>

(* Mutant of Queue: the REGISTERED Jobs of every Service. *)
QueueOfAll(sid) ==
    {j \in JobIds : Stored(j) /\ jobs[j].status = REGISTERED}

(* The queue of a Service: its REGISTERED Jobs. *)
Queue(sid) ==
    {j \in JobIds : Stored(j) /\ jobs[j].service = sid
                              /\ jobs[j].status = REGISTERED}

(* Older: by date_submitted, ties broken by identifier. *)
Older(a, b) ==
    \/ jobs[a].date_submitted < jobs[b].date_submitted
    \/ jobs[a].date_submitted = jobs[b].date_submitted /\ a < b

(* Mutant of claim_next: only the Jobs submitted at the current time are  *)
(* looked at.                                                             *)
claim_next_fresh(sid) ==
    LET fresh == {j \in Queue(sid) : jobs[j].date_submitted = now} IN
    IF fresh = {} THEN 0
    ELSE CHOOSE j \in fresh : \A k \in fresh \ {j} : Older(j, k)

(* Mutant of claim_next: the newest REGISTERED Job is taken. *)
claim_next_newest(sid) ==
    IF Queue(sid) = {} THEN 0
    ELSE CHOOSE j \in Queue(sid) : \A k \in Queue(sid) \ {j} : Older(k, j)

(* claim_next(service): the oldest REGISTERED Job of the Service, or 0. *)
claim_next(sid) ==
    IF Queue(sid) = {} THEN 0
    ELSE CHOOSE j \in Queue(sid) : \A k \in Queue(sid) \ {j} : Older(j, k)

(* poll(service_id): NotFoundError for an unknown Service. *)
poll_response(sid) ==
    IF QueryService(sid) = 0 THEN "404" ELSE "200"

(* Mutant of poll_begin: the heartbeat of the Service is not refreshed. *)
poll_begin_unrefreshed(sid) ==
    /\ InFlight < InFlightLimit
    /\ IF poll_response(sid) = "200"
       THEN Begin(Pending("poll", sid, 0, "", 0, 0))
       ELSE UNCHANGED inflight
    /\ UNCHANGED <<services, jobs, now, nextJob, handed>>

(* poll(service_id): look the Service up and refresh its heartbeat. *)
poll_begin(sid) ==
    /\ InFlight < InFlightLimit
    /\ IF poll_response(sid) = "200"
       THEN /\ services' = [services EXCEPT
                   ![sid].last_heartbeat = Service_heartbeat]
            /\ Begin(Pending("poll", sid, 0, "", 0, 0))
       ELSE UNCHANGED <<inflight, services>>
    /\ UNCHANGED <<jobs, now, nextJob, handed>>

(* Mutant of poll_claim: the Job is returned and its status not written. *)
poll_claim_unmarked(p) ==
    /\ BagIn(p, inflight) /\ p.op = "poll"
    /\ Finish(p)
    /\ LET j == claim_next(p.sid) IN
       IF j = 0
       THEN UNCHANGED handed
       ELSE handed' = [handed EXCEPT ![j] = IF @ < 2 THEN @ + 1 ELSE @]
    /\ UNCHANGED <<services, jobs, now, nextJob>>

(* Mutant of poll_claim: every queued Job of the Service is marked. *)
poll_claim_all(p) ==
    /\ BagIn(p, inflight) /\ p.op = "poll"
    /\ Finish(p)
    /\ LET j == claim_next(p.sid) IN
       IF j = 0
       THEN UNCHANGED <<jobs, handed>>
       ELSE /\ jobs' = [k \in JobIds |->
                   IF k \in Queue(p.sid)
                   THEN [jobs[k] EXCEPT !.status = WORKING] ELSE jobs[k]]
            /\ handed' = [handed EXCEPT ![j] = IF @ < 2 THEN @ + 1 ELSE @]
    /\ UNCHANGED <<services, now, nextJob>>

(* poll(service_id): claim_next in one transaction, and the answer. *)
poll_claim(p) ==
    /\ BagIn(p, inflight) /\ p.op = "poll"
    /\ Finish(p)
    /\ LET j == claim_next(p.sid) IN
       IF j = 0
       THEN UNCHANGED <<jobs, handed>>
       ELSE /\ jobs' = [jobs EXCEPT ![j].status = WORKING]
            /\ handed' = [handed EXCEPT ![j] = IF @ < 2 THEN @ + 1 ELSE @]
    /\ UNCHANGED <<services, now, nextJob>>

(* What a handler answers when its session.commit() raises IntegrityError: *)
(* register_service logs, rolls back and answers 400; request_job and     *)
(* update_job_results build the log message with                          *)
(* '... %s ... %s' % case_number, which raises TypeError before the        *)
(* rollback and the response are reached.                                 *)
IntegrityError_response(op) ==
    IF op = "register_service" THEN "400" ELSE "TypeError"

(* POST /services: session.commit() raises IntegrityError. *)
register_service_IntegrityError(body) ==
    /\ NewServiceId \in ServiceIds
    /\ register_service_response(body) = "201"
    /\ IntegrityError_response("register_service") = "400"
    /\ UNCHANGED vars

(* POST /services/<service_id>/jobs: session.commit() raises              *)
(* IntegrityError; the Job of the session is not stored.                  *)
request_job_IntegrityError(p) ==
    /\ BagIn(p, inflight) /\ p.op = "request_job"
    /\ Finish(p)
    /\ UNCHANGED <<services, jobs, now, nextJob, handed>>

(* PUT /services/<service_id>/jobs/<job_id>: session.commit() raises      *)
(* IntegrityError; the changes of the session are not stored.             *)
update_job_results_IntegrityError(p) ==
    /\ BagIn(p, inflight) /\ p.op = "update_job_results"
    /\ Finish(p)
    /\ UNCHANGED <<services, jobs, now, nextJob, handed>>

(* The commits the store refuses. *)
StoreFaults ==
    \/ \E body \in RegistrationBodies : register_service_IntegrityError(body)
    \/ \E p \in BagToSet(inflight) : request_job_IntegrityError(p)
    \/ \E p \in BagToSet(inflight) : update_job_results_IntegrityError(p)

(* The requests on Services that are registered. *)
ServiceRequests ==
    \/ \E sid \in ServiceIds : get_service_data(sid)
    \/ \E sid \in ServiceIds : heartbeat_begin(sid)
    \/ \E p \in BagToSet(inflight) : heartbeat_commit(p)
    \/ \E sid \in ServiceIds : poll_begin(sid)
    \/ \E p \in BagToSet(inflight) : poll_claim(p)

(* The requests on Jobs that are created. *)
JobRequests ==
    \/ \E p \in BagToSet(inflight) : request_job_commit(p)
    \/ \E sid \in ServiceIds, jid \in JobIds, body \in UpdateBodies :
          update_job_results_begin(sid, jid, body.status, body.result)
    \/ \E p \in BagToSet(inflight) : update_job_results_commit(p)

Next ==
    \/ Tick
    \/ \E body \in RegistrationBodies : register_service(body)
    \/ \E sid \in ServiceIds, payload \in Values \cup {MalformedBody} :
          request_job_begin(sid, payload)
    \/ ServiceRequests
    \/ JobRequests
    \/ StoreFaults

Spec == Init /\ [][Next]_vars

(* The handlers that commit, over a store that may refuse a commit. *)
NextStoreFaults ==
    \/ Tick
    \/ \E body \in RegistrationBodies :
          /\ NewServiceId <= ScenarioServices
          /\ register_service(body)
    \/ \E sid \in ServiceIds, payload \in Values \cup {MalformedBody} :
          request_job_begin(sid, payload)
    \/ JobRequests
    \/ StoreFaults

SpecStoreFaults == Init /\ [][NextStoreFaults]_vars

(* The Service registry alone: registrations and heartbeats. *)
NextHeartbeats ==
    \/ Tick
    \/ \E body \in RegistrationBodies : register_service(body)
    \/ \E sid \in ServiceIds : get_service_data(sid)
    \/ \E sid \in ServiceIds : heartbeat_begin(sid)
    \/ \E p \in BagToSet(inflight) : heartbeat_commit(p)

SpecHeartbeats == Init /\ [][NextHeartbeats]_vars

(* The broker with a single registered Service and all its Jobs. *)
NextOneService ==
    \/ Tick
    \/ \E body \in RegistrationBodies :
          /\ NewServiceId <= ScenarioServices
          /\ register_service(body)
    \/ \E sid \in ServiceIds, payload \in Values \cup {MalformedBody} :
          request_job_begin(sid, payload)
    \/ ServiceRequests
    \/ JobRequests

SpecOneService == Init /\ [][NextOneService]_vars

(* The broker with a single Service that keeps polling.  A handler that   *)
(* has started runs to its commit, and a poll the Service keeps sending   *)
(* is served whenever a thread is free.                                   *)
FairPolling ==
    /\ \A sid \in ServiceIds : SF_vars(poll_begin(sid))
    /\ WF_vars(\E p \in BagToSet(inflight) : poll_claim(p))
    /\ WF_vars(\E p \in BagToSet(inflight) : heartbeat_commit(p))
    /\ WF_vars(\E p \in BagToSet(inflight) : request_job_commit(p))
    /\ WF_vars(\E p \in BagToSet(inflight) : update_job_results_commit(p))

SpecPolling == Init /\ [][NextOneService]_vars /\ FairPolling

(* The broker with all its Services and a single Job. *)
NextOneJob ==
    \/ Tick
    \/ \E body \in RegistrationBodies : register_service(body)
    \/ \E sid \in ServiceIds, payload \in Values \cup {MalformedBody} :
          /\ nextJob <= ScenarioJobs
          /\ request_job_begin(sid, payload)
    \/ ServiceRequests
    \/ JobRequests

SpecOneJob == Init /\ [][NextOneJob]_vars
---------------------------------------------------------------------------
(* Shorthands of the properties below *)

Owner(j) == jobs[j].service
UpdatesInFlight == {p \in BagToSet(inflight) : p.op = "update_job_results"}
PollsInFlight == {p \in BagToSet(inflight) : p.op = "poll"}
CreatesInFlight == {p \in BagToSet(inflight) : p.op = "request_job"}
Payloads == Values \cup {MalformedBody}

C1_IllegalIsRejected ==
    \A sid \in ServiceIds, jid \in JobIds, body \in UpdateBodies :
        (/\ Registered(sid) /\ Stored(jid)
         /\ ~LegalSuccessor(jobs[jid].status, body.status))
        => update_job_results_response(sid, jid, body.status, body.result)
               = "InvalidTransitionError"

(* C1: the status of a Job only ever moves REGISTERED -> WORKING ->        *)
(* COMPLETE or ERROR, and an update requesting any other transition is    *)
(* answered InvalidTransitionError.                                       *)
C1_OnlyLegalSequences ==
    /\ []C1_IllegalIsRejected
    /\ [][\A j \in JobIds : Stored(j) =>
             \/ jobs'[j].status = jobs[j].status
             \/ LegalSuccessor(jobs[j].status, jobs'[j].status)]_vars

ValidFor(sid, payload) ==
    /\ payload # MalformedBody
    /\ Validates(payload, services[sid].job_registration_schema)

C2_Answer ==
    \A sid \in ServiceIds, payload \in Payloads : Registered(sid) =>
        /\ request_job_response(sid, payload) = "201"
               <=> ValidFor(sid, payload)
        /\ (payload # MalformedBody /\ ~ValidFor(sid, payload))
               => request_job_response(sid, payload) = "ValidationError"

C2_StoredAreValid ==
    /\ \A j \in JobIds : Stored(j) => ValidFor(Owner(j), jobs[j].parameters)
    /\ \A p \in CreatesInFlight : ValidFor(p.sid, p.value)

C2_Effect ==
    /\ \A sid \in ServiceIds, payload \in Payloads :
          (Registered(sid) /\ request_job_begin(sid, payload)) =>
              IF ValidFor(sid, payload)
              THEN /\ inflight' = inflight (+) SetToBag({
                          Pending("request_job", sid, nextJob, REGISTERED,
                                  payload, now)})
                   /\ jobs' = jobs
              ELSE UNCHANGED <<jobs, inflight, nextJob>>
    /\ \A p \in CreatesInFlight : request_job_commit(p) =>
          /\ ~Stored(p.jid)
          /\ jobs'[p.jid].status = REGISTERED
          /\ jobs'[p.jid].service = p.sid
          /\ jobs'[p.jid].parameters = p.value
          /\ \A k \in JobIds \ {p.jid} : jobs'[k] = jobs[k]
    /\ \A j \in JobIds : (~Stored(j) /\ jobs'[j] # NoJob) =>
          \E p \in CreatesInFlight : p.jid = j /\ request_job_commit(p)

(* C2: a Job is created on an existing Service exactly when the submitted *)
(* parameters validate against that Service's job_registration_schema; a  *)
(* request whose parameters do not validate is answered with a validation *)
(* error and leaves the stored Jobs as they were.                         *)
C2_CreateIffValid ==
    /\ [](C2_Answer /\ C2_StoredAreValid)
    /\ [][C2_Effect]_vars

(* C2, reached: two Services with different registration schemas, and a   *)
(* Job created on the second.                                             *)
C2_Witness ==
    /\ Registered(1) /\ Registered(2)
    /\ services[1].job_registration_schema
           # services[2].job_registration_schema
    /\ \E j \in JobIds :
          Stored(j) /\ jobs[j].status = REGISTERED /\ Owner(j) = 2

C3_Claim(p) ==
    IF Queue(p.sid) = {}
    THEN handed' = handed
    ELSE \E j \in Queue(p.sid) :
            /\ handed[j] = 0
            /\ handed' = [handed EXCEPT ![j] = 1]
            /\ j \notin Queue(p.sid)'

(* C3: of the poll calls of a Service that run concurrently, as many are  *)
(* answered with a Job as there are queued Jobs, each with a Job of its   *)
(* own, and the others with none: no Job is handed to two callers.        *)
C3_NoJobHandedTwice ==
    /\ [](\A j \in JobIds : handed[j] <= 1)
    /\ [][\A p \in PollsInFlight : poll_claim(p) => C3_Claim(p)]_vars

(* C3, reached: both Jobs of a Service handed out, each once, and a       *)
(* further poll in flight that finds the queue empty.                     *)
C3_Witness ==
    /\ Stored(1) /\ Stored(2) /\ Owner(1) = Owner(2)
    /\ handed[1] = 1 /\ handed[2] = 1
    /\ \E p \in PollsInFlight : p.sid = Owner(1) /\ Queue(p.sid) = {}

C4_Case(jid, body) ==
    /\ Stored(jid) /\ jobs[jid].status = WORKING
    /\ body.status = COMPLETE
    /\ services[Owner(jid)].job_result_schema # NoSchema
    /\ ~Validates(body.result, services[Owner(jid)].job_result_schema)

(* C4: an update of a WORKING Job to COMPLETE whose result does not       *)
(* validate against the owning Service's job_result_schema is answered    *)
(* with a validation error and changes nothing of the Job.                *)
C4_InvalidResultRejected ==
    /\ [](\A sid \in ServiceIds, jid \in JobIds, body \in UpdateBodies :
             (Registered(sid) /\ C4_Case(jid, body)) =>
                 update_job_results_response(sid, jid, body.status,
                                             body.result) = "ValidationError")
    /\ [][\A sid \in ServiceIds, jid \in JobIds, body \in UpdateBodies :
             (/\ Registered(sid) /\ C4_Case(jid, body)
              /\ update_job_results_begin(sid, jid, body.status, body.result))
             => UNCHANGED <<jobs, inflight>>]_vars

(* C4, reached: a claimed Job of a Service with a result schema, and a    *)
(* result that schema rejects.                                            *)
C4_Witness ==
    \E jid \in JobIds :
        /\ C4_Case(jid, [status |-> COMPLETE, result |-> 2])
        /\ handed[jid] = 1
        /\ inflight = EmptyBag

(* C5: an update changes a Job only when the Service named in the request *)
(* is the Service that owns the Job.                                      *)
C5_OnlyOwnerUpdates ==
    [][\A p \in UpdatesInFlight :
          (update_job_results_commit(p) /\ jobs' # jobs)
          => p.sid = Owner(p.jid)]_vars

(* C6: of two racing updates of a Job the one whose transition check saw  *)
(* a status that is no longer the stored one does not overwrite the Job.  *)
C6_StaleUpdateTakesNoEffect ==
    [][\A p \in UpdatesInFlight :
          (/\ update_job_results_commit(p)
           /\ ~LegalSuccessor(jobs[p.jid].status, p.status))
          => jobs' = jobs]_vars

C7_Claim(p) ==
    IF Queue(p.sid) = {}
    THEN jobs' = jobs /\ handed' = handed
    ELSE \E j \in Queue(p.sid) :
            /\ handed' = [handed EXCEPT ![j] = handed[j] + 1]
            /\ jobs' = [jobs EXCEPT ![j].status = WORKING]
            /\ Queue(p.sid)' = Queue(p.sid) \ {j}
            /\ Cardinality(Queue(p.sid)') = Cardinality(Queue(p.sid)) - 1

(* C7: a poll of a Service with no REGISTERED Job changes no Job; a poll  *)
(* of a Service with REGISTERED Jobs returns one of them, stores it as    *)
(* WORKING and leaves every other Job alone, so the Service has one       *)
(* REGISTERED Job less.                                                   *)
C7_PollTakesOne ==
    [][\A p \in PollsInFlight : poll_claim(p) => C7_Claim(p)]_vars

(* C7, reached: the one Job created was claimed, and the next poll finds  *)
(* the queue empty.                                                       *)
C7_Witness ==
    /\ Stored(1) /\ jobs[1].status = WORKING /\ handed[1] = 1
    /\ ~Stored(2) /\ nextJob = 2
    /\ \E p \in PollsInFlight : p.sid = Owner(1) /\ Queue(p.sid) = {}

SubmittedBefore(a, b) ==
    \/ jobs[a].date_submitted < jobs[b].date_submitted
    \/ jobs[a].date_submitted = jobs[b].date_submitted /\ a < b

C9_HeartbeatNeverMovesBack ==
    [][\A s \in ServiceIds : Registered(s) =>
          services'[s].last_heartbeat >= services[s].last_heartbeat]_vars

C10_StillUpdated ==
    \A j \in JobIds :
        (Stored(j) /\ jobs[j].status = WORKING /\ has_timed_out(Owner(j)))
        => update_job_results_response(Owner(j), j, ERROR, NoResult)
               = "NoResponse"

(* C10: a Service timing out changes no Job, and a WORKING Job of a       *)
(* Service that has timed out is still updated on request.                *)
C10_TimeoutChangesNoJob ==
    /\ []C10_StillUpdated
    /\ [][(\E s \in ServiceIds :
              /\ Registered(s) /\ ~has_timed_out(s)
              /\ (has_timed_out(s))')
          => jobs' = jobs]_vars

(* C10, reached: a Job finished after its Service had timed out.          *)
C10_Witness ==
    \E j \in JobIds :
        /\ Stored(j) /\ jobs[j].status \in Terminal
        /\ has_timed_out(Owner(j))
        /\ jobs[j].date_finished
               > services[Owner(j)].last_heartbeat + HeartbeatTimeout

(* C11: GET /services/<service_id> answers 200 when a Service with that   *)
(* identifier exists and 404 when none exists; the handler never ends in  *)
(* an unhandled error.                                                    *)
C11_GetAnswers200Or404 ==
    \A sid \in ServiceIds :
        get_service_data_response(sid)
            = IF Registered(sid) THEN "200" ELSE "404"

C13_UpdateAnswers200 ==
    \A sid \in ServiceIds, jid \in JobIds, body \in UpdateBodies :
        (/\ Registered(sid) /\ Stored(jid)
         /\ Job_update(jid, body.status, body.result) = "ok")
        => update_job_results_response(sid, jid, body.status, body.result)
               = "200"

(* C14: when session.commit() raises IntegrityError in register_service,  *)
(* request_job or update_job_results, the handler answers 400 with a case *)
(* number and nothing of the refused transaction is stored; the handler   *)
(* does not end in an unhandled error.                                    *)
C14_IntegrityErrorAnswers400 ==
    [][/\ \A p \in CreatesInFlight : request_job_IntegrityError(p) =>
             /\ IntegrityError_response("request_job") = "400"
             /\ UNCHANGED <<services, jobs>>
       /\ \A p \in UpdatesInFlight : update_job_results_IntegrityError(p) =>
             /\ IntegrityError_response("update_job_results") = "400"
             /\ UNCHANGED <<services, jobs>>
       /\ IntegrityError_response("register_service") = "400"]_vars

(* C15: poll of an existing Service sets that Service's last_heartbeat to *)
(* the current time before the claim is attempted, whether or not the     *)
(* claim then finds a Job; poll of an unknown identifier is answered      *)
(* NotFoundError and changes no Service and no Job.                       *)
C15_PollRefreshesHeartbeat ==
    /\ [](\A sid \in ServiceIds :
             poll_response(sid) = IF Registered(sid) THEN "200" ELSE "404")
    /\ [][/\ \A sid \in ServiceIds : poll_begin(sid) =>
                IF Registered(sid)
                THEN /\ services' =
                          [services EXCEPT ![sid].last_heartbeat = now]
                     /\ jobs' = jobs /\ handed' = handed
                     /\ \E p \in PollsInFlight' :
                           /\ p.sid = sid
                           /\ inflight' = inflight (+) SetToBag({p})
                ELSE UNCHANGED <<services, jobs, inflight, handed>>
          /\ \A p \in PollsInFlight : poll_claim(p) =>
                /\ Registered(p.sid)
                /\ services' = services]_vars

(* C15, reached: a Service whose Job was submitted and claimed polls      *)
(* again at a later time: its queue is empty and its heartbeat is fresh.  *)
C15_Witness ==
    /\ now = 1
    /\ Stored(1) /\ jobs[1].date_submitted = 0 /\ handed[1] = 1
    /\ \E p \in PollsInFlight :
          /\ p.sid = Owner(1)
          /\ Queue(p.sid) = {}
          /\ services[p.sid].last_heartbeat = now

C16_Accepted ==
    \A sid \in ServiceIds, jid \in JobIds, body \in UpdateBodies :
        (/\ Registered(sid) /\ Stored(jid)
         /\ jobs[jid].status = WORKING /\ body.status = ERROR)
        => /\ Job_update(jid, body.status, body.result) = "ok"
           /\ update_job_results_response(sid, jid, body.status, body.result)
                  \notin {"404", "ValidationError", "InvalidTransitionError"}

C16_Stored(p) ==
    /\ jobs'[p.jid].status = ERROR
    /\ jobs'[p.jid].result =
           IF p.value # NoResult THEN p.value ELSE jobs[p.jid].result
    /\ jobs'[p.jid].date_finished = p.ts
    /\ p.ts # NoDate

HeartbeatsInFlight == {p \in BagToSet(inflight) : p.op = "heartbeat"}

(* C17: a heartbeat on an existing Service changes that Service's         *)
(* last_heartbeat and nothing else: not its name, description or schemas, *)
(* no other Service and no Job; a heartbeat for an unknown identifier is  *)
(* answered NotFoundError and changes nothing.  No operation changes the  *)
(* job_registration_schema of a registered Service.                       *)
C17_HeartbeatChangesOnlyHeartbeat ==
    /\ [](\A sid \in ServiceIds :
             heartbeat_response(sid) = IF Registered(sid) THEN "200" ELSE "404")
    /\ [][/\ \A sid \in ServiceIds : heartbeat_begin(sid) =>
                /\ UNCHANGED <<services, jobs>>
                /\ ~Registered(sid) => UNCHANGED inflight
          /\ \A p \in HeartbeatsInFlight : heartbeat_commit(p) =>
                /\ jobs' = jobs
                /\ \A s \in ServiceIds \ {p.sid} : services'[s] = services[s]
                /\ services'[p.sid] =
                       [services[p.sid] EXCEPT !.last_heartbeat = p.ts]
          /\ \A s \in ServiceIds : Registered(s) =>
                services'[s].job_registration_schema
                    = services[s].job_registration_schema]_vars

(* C17, reached: of two Services registered at the same time one has      *)
(* sent a heartbeat later, and the other's last_heartbeat is as it was.   *)
C17_Witness ==
    /\ Registered(1) /\ Registered(2)
    /\ now = 1 /\ inflight = EmptyBag /\ nextJob = 1
    /\ services[1].last_heartbeat = 1
    /\ services[2].last_heartbeat = 0

(* C18: a poll of a Service neither returns nor changes a Job owned by    *)
(* another Service, and no operation changes the Service a Job belongs    *)
(* to.                                                                    *)
C18_QueuesIndependent ==
    [][/\ \A p \in PollsInFlight : poll_claim(p) =>
             \A j \in JobIds : (Stored(j) /\ Owner(j) # p.sid) =>
                 /\ jobs'[j] = jobs[j]
                 /\ handed'[j] = handed[j]
       /\ \A j \in JobIds : Stored(j) =>
             /\ jobs'[j] # NoJob
             /\ jobs'[j].service = jobs[j].service]_vars

(* C18, reached: a Service with an empty queue has polled while a Job of  *)
(* another Service was queued, and that Job is still queued and unclaimed. *)
C18_Witness ==
    \E j \in JobIds, s \in ServiceIds :
        /\ Stored(j) /\ Registered(s) /\ Owner(j) # s
        /\ jobs[j].status = REGISTERED /\ handed[j] = 0
        /\ jobs[j].date_submitted = 0
        /\ now = 1 /\ services[s].last_heartbeat = 1
        /\ services[Owner(j)].last_heartbeat = 0
        /\ inflight = EmptyBag

C19_FinishedIffTerminal ==
    \A j \in JobIds : Stored(j) =>
        (jobs[j].date_finished # NoDate <=> jobs[j].status \in Terminal)

(* C19: a Job has date_finished set exactly when its status is COMPLETE   *)
(* or ERROR, and once it is COMPLETE or ERROR no update, poll or          *)
(* heartbeat changes its status, result or date_finished.                 *)
C19_TerminalIsFinal ==
    /\ []C19_FinishedIffTerminal
    /\ [][\A j \in JobIds :
             (Stored(j) /\ jobs[j].status \in Terminal)
             => jobs'[j] = jobs[j]]_vars

====
